---- MODULE Spec2Model ----
(***************************************************************************)
(* Calculators for semi-structured complex numbers (x, y, z):              *)
(* arithmetic.py (triple algebra, arithmetic machines STD and DBZ,         *)
(* infix_to_postfix, evaluate_postfix), calculator_std.py and              *)
(* calculator_dbz.py (the two batch drivers), run by run_experiment.py on  *)
(* one list of equations, STD first and DBZ second.                        *)
(*                                                                         *)
(* Numbers.  The program computes on Python floats (binary64).  The model  *)
(* keeps the structure of that format at a reduced size: a finite number   *)
(* is an integer count of units of 1/Scale, its magnitude is at most       *)
(* MaxFloat units, every operation rounds its exact result to the nearest  *)
(* unit (ties to even), a result beyond MaxFloat is an infinity, and there *)
(* is one NaN.  So, as in binary64, there are nonzero values whose square  *)
(* rounds to zero and finite values whose square is out of range.  The     *)
(* trigonometric steps of multiply are computed on exact direction         *)
(* vectors and rounded once, so the residues binary64 leaves at multiples  *)
(* of pi/2 (below 2^-52 relative) round to zero, and zero has no sign.     *)
(***************************************************************************)
EXTENDS Integers, Naturals, Sequences, FiniteSets, TLC

\* Units per 1.0 in the reduced float format.
Scale == 4

\* Largest finite magnitude of the reduced float format, in units.
MaxFloat == 4000

\* Longest token sequence over the core alphabet, of any shape.
MaxTokens == 4

\* Longest token sequence over the full alphabet, of any shape.
MaxShort == 2

\* Most operators in an equation of alternating core operands and operators.
MaxOps == 2

\* Longest batch of equations.
MaxBatch == 2

-----------------------------------------------------------------------------
(* Reduced float format                                                    *)

Inf == MaxFloat + 1

NaN == MaxFloat + 2

IsNaN(a) == a = NaN

IsInf(a) == a = Inf \/ a = -Inf

IsFinite(a) == ~IsNaN(a) /\ ~IsInf(a)

Abs(n) == IF n < 0 THEN -n ELSE n

Sign(n) == IF n > 0 THEN 1 ELSE IF n < 0 THEN -1 ELSE 0

\* n / d rounded to the nearest integer, ties to even (d > 0).
RoundDiv(n, d) ==
    LET q == n \div d
        r == n % d
    IN  IF 2 * r < d THEN q
        ELSE IF 2 * r > d THEN q + 1
        ELSE IF q % 2 = 0 THEN q ELSE q + 1

\* An exact finite result, rounded into the format: overflow gives +-inf.
Clamp(v) == IF v > MaxFloat THEN Inf ELSE IF v < -MaxFloat THEN -Inf ELSE v

RECURSIVE SqrtSearch(_, _, _)
\* Largest r in lo..hi with r * r <= n (lo * lo <= n).
SqrtSearch(n, lo, hi) ==
    IF lo >= hi THEN lo
    ELSE LET mid == (lo + hi + 1) \div 2
         IN  IF mid * mid <= n THEN SqrtSearch(n, mid, hi)
             ELSE SqrtSearch(n, lo, mid - 1)

\* sqrt(n) rounded to the nearest integer (n >= 0, n < 2^31).
ISqrt(n) ==
    LET r == SqrtSearch(n, 0, 46340)
    IN  IF n - r * r > r THEN r + 1 ELSE r

\* Python float negation.
FNeg(a) == IF IsNaN(a) THEN NaN ELSE -a

\* Python float addition a + b.
FAdd(a, b) ==
    IF IsNaN(a) \/ IsNaN(b) THEN NaN
    ELSE IF IsInf(a) THEN (IF b = -a THEN NaN ELSE a)
    ELSE IF IsInf(b) THEN b
    ELSE Clamp(a + b)

\* Python float subtraction a - b.
FSub(a, b) == FAdd(a, FNeg(b))

\* Python float multiplication a * b (never raises; underflows to 0,
\* overflows to an infinity).
FMul(a, b) ==
    IF IsNaN(a) \/ IsNaN(b) THEN NaN
    ELSE IF IsInf(a) \/ IsInf(b)
         THEN (IF a = 0 \/ b = 0 THEN NaN
               ELSE IF (a > 0) = (b > 0) THEN Inf ELSE -Inf)
    ELSE Clamp(RoundDiv(a * b, Scale))

\* A ** 2 raises OverflowError exactly when A is finite and its square is
\* out of range.
SqOverflows(a) == IsFinite(a) /\ RoundDiv(a * a, Scale) > MaxFloat

\* The value of A ** 2 when it does not raise.
FSq(a) ==
    IF IsNaN(a) THEN NaN
    ELSE IF IsInf(a) THEN Inf
    ELSE RoundDiv(a * a, Scale)

\* math.sqrt(n) for n >= 0 (or inf, nan).
FSqrt(n) ==
    IF IsNaN(n) THEN NaN
    ELSE IF IsInf(n) THEN Inf
    ELSE ISqrt(n * Scale)

\* The value of 1.0 / n for n # 0.
FRecip(n) ==
    IF IsNaN(n) THEN NaN
    ELSE IF IsInf(n) THEN 0
    ELSE Sign(n) * Clamp(RoundDiv(Scale * Scale, Abs(n)))

-----------------------------------------------------------------------------
(* Outcomes of a call: a returned value or a raised exception              *)

Ret(v) == [exc |-> "", msg |-> "", val |-> v]

Raise(type, message) == [exc |-> type, msg |-> message, val |-> <<>>]

OverflowMsg == "(34, 'Numerical result out of range')"

-----------------------------------------------------------------------------
(* Core arithmetic on triples                                              *)

add(xyz, abc) ==
    <<FAdd(xyz[1], abc[1]), FAdd(xyz[2], abc[2]), FAdd(xyz[3], abc[3])>>

\* subtract taking xyz from abc.
subtract_Reversed(xyz, abc) ==
    <<FSub(abc[1], xyz[1]), FSub(abc[2], xyz[2]), FSub(abc[3], xyz[3])>>

subtract(xyz, abc) ==
    <<FSub(xyz[1], abc[1]), FSub(xyz[2], abc[2]), FSub(xyz[3], abc[3])>>

\* Largest magnitude whose square is in range.
SqrtMax == ISqrt(MaxFloat * Scale)

\* A direction vector stretched by a positive integer so that its longer
\* component is near SqrtMax (the direction is unchanged).
Stretch(dx, dy) ==
    LET m == IF Abs(dx) > Abs(dy) THEN Abs(dx) ELSE Abs(dy)
        k == IF m >= SqrtMax THEN 1 ELSE SqrtMax \div m
    IN  [nan |-> FALSE, dx |-> k * dx, dy |-> k * dy]

\* Angle without the two degenerate cases: atan2(B, A) for every pair, so
\* 0 for (0, 0) and -pi/2 for A = 0, B < 0.
Angle_Atan2Only(A, B) ==
    IF A = 0 /\ B = 0 THEN Stretch(1, 0)
    ELSE IF IsNaN(A) \/ IsNaN(B) THEN [nan |-> TRUE, dx |-> 0, dy |-> 0]
    ELSE IF IsInf(A) \/ IsInf(B)
         THEN Stretch(IF IsInf(A) THEN Sign(A) ELSE 0,
                      IF IsInf(B) THEN Sign(B) ELSE 0)
    ELSE Stretch(A, B)

\* Steps 4-6 and 8-10 of multiply: the angle computed from the pair (A, B),
\* as its direction vector.  pi is (-1, 0), pi/2 is (0, 1); atan2 of
\* infinite arguments follows C99 (multiples of pi/4).
Angle(A, B) ==
    IF A = 0 /\ B = 0 THEN Stretch(-1, 0)
    ELSE IF A = 0 /\ B # 0 THEN Stretch(0, 1)
    ELSE IF IsNaN(A) \/ IsNaN(B) THEN [nan |-> TRUE, dx |-> 0, dy |-> 0]
    ELSE IF IsInf(A) \/ IsInf(B)
         THEN Stretch(IF IsInf(A) THEN Sign(A) ELSE 0,
                      IF IsInf(B) THEN Sign(B) ELSE 0)
    ELSE Stretch(A, B)

\* mag * (num / den) for a trigonometric factor num / den in [-1, 1].
FMulTrig(mag, nan, num, den) ==
    IF IsNaN(mag) \/ nan THEN NaN
    ELSE IF IsInf(mag) THEN (IF num = 0 THEN NaN ELSE Sign(num) * Inf)
    ELSE RoundDiv(mag * num, den)

\* Steps 12-14 of multiply, from A, B, C, D and the angles F and G:
\* cos(F - G) = cosFG / norm, sin(F - G) = sinFG / norm.  A ** 2 (and B, C,
\* D likewise) raises OverflowError when out of range.
new_XYZ(A, B, C, D, F, G) ==
    LET norm  == ISqrt((F.dx * F.dx + F.dy * F.dy) * (G.dx * G.dx + G.dy * G.dy))
        den   == IF F.nan \/ G.nan THEN 1 ELSE norm
        cosFG == F.dx * G.dx + F.dy * G.dy
        sinFG == F.dy * G.dx - F.dx * G.dy
    IN  IF SqOverflows(A) \/ SqOverflows(B) \/ SqOverflows(C) \/ SqOverflows(D)
        THEN Raise("OverflowError", OverflowMsg)
        ELSE Ret(<<FMulTrig(FSqrt(FAdd(FSq(A), FSq(B))), F.nan \/ G.nan, cosFG, den),
                   FMulTrig(FSqrt(FAdd(FSq(A), FSq(B))), F.nan \/ G.nan, sinFG, den),
                   FSqrt(FAdd(FSq(C), FSq(D)))>>)

\* Steps 4-11 of multiply: the angles F (of A, B) and G (of C, D).
Polar(A, B, C, D) == new_XYZ(A, B, C, D, Angle(A, B), Angle(C, D))

multiply(xyz, abc) ==
    LET x == xyz[1]  y == xyz[2]  z == xyz[3]
        a == abc[1]  b == abc[2]  c == abc[3]
    IN  Polar(\* Step 2
              FSub(FSub(FMul(x, a), FMul(y, b)), FMul(z, c)),
              FAdd(FMul(x, b), FMul(y, a)),
              \* Step 3
              FAdd(FMul(x, c), FMul(z, a)),
              FAdd(FMul(y, c), FMul(z, b)))

-----------------------------------------------------------------------------
(* Arithmetic machines                                                     *)

\* The division branch shared by both machines once the divisor (a, b, c)
\* is fixed: R = 1.0 / (a*a + b*b + c*c), then multiply by the inverse.
\* 1.0 / 0.0 raises ZeroDivisionError.
DivideBy(xyz, a, b, c) ==
    LET n == FAdd(FAdd(FMul(a, a), FMul(b, b)), FMul(c, c))
        R == FRecip(n)
        new_a == FMul(R, a)
        new_b == FMul(FNeg(R), b)
        new_c == FMul(FNeg(R), c)
    IN  IF n = 0 THEN Raise("ZeroDivisionError", "float division by zero")
        ELSE multiply(xyz, <<new_a, new_b, new_c>>)

arithmetic_machine_std(xyz, abc, op) ==
    IF op = "+" THEN Ret(add(xyz, abc))
    ELSE IF op = "-" THEN Ret(subtract(xyz, abc))
    ELSE IF op = "*" THEN multiply(xyz, abc)
    ELSE IF op = "/" THEN
        IF abc[1] = 0 /\ abc[2] = 0 /\ abc[3] = 0
        THEN Raise("ZeroDivisionError", "Cannot divide by zero")
        ELSE DivideBy(xyz, abc[1], abc[2], abc[3])
    ELSE Raise("ValueError", "Unknown operator: '" \o op \o "'")

\* arithmetic_machine_dbz substituting the unit as soon as one component of
\* the divisor is zero.
arithmetic_machine_dbz_AnyZero(xyz, abc, op) ==
    IF op = "+" THEN Ret(add(xyz, abc))
    ELSE IF op = "-" THEN Ret(subtract(xyz, abc))
    ELSE IF op = "*" THEN multiply(xyz, abc)
    ELSE IF op = "/" THEN
        IF abc[1] = 0 \/ abc[2] = 0 \/ abc[3] = 0
        THEN DivideBy(xyz, 0, 0, Scale)
        ELSE DivideBy(xyz, abc[1], abc[2], abc[3])
    ELSE Raise("ValueError", "Unknown operator: '" \o op \o "'")

arithmetic_machine_dbz(xyz, abc, op) ==
    IF op = "+" THEN Ret(add(xyz, abc))
    ELSE IF op = "-" THEN Ret(subtract(xyz, abc))
    ELSE IF op = "*" THEN multiply(xyz, abc)
    ELSE IF op = "/" THEN
        IF abc[1] = 0 /\ abc[2] = 0 /\ abc[3] = 0
        THEN DivideBy(xyz, 0, 0, Scale)
        ELSE DivideBy(xyz, abc[1], abc[2], abc[3])
    ELSE Raise("ValueError", "Unknown operator: '" \o op \o "'")

\* The machine_fn argument of evaluate_postfix, by name.
machine_fn(machine, first, second, token) ==
    IF machine = "std" THEN arithmetic_machine_std(first, second, token)
    ELSE arithmetic_machine_dbz(first, second, token)

-----------------------------------------------------------------------------
(* Tokens                                                                  *)

OPERATORS == {"+", "-", "*", "/"}

PRECEDENCE == [op \in OPERATORS |-> IF op \in {"+", "-"} THEN 1 ELSE 2]

\* token.split(','): the comma-separated fields of each token of the
\* alphabet.
split(token) ==
    CASE token = "0,0,0"      -> <<"0", "0", "0">>
      [] token = "1,0,0"      -> <<"1", "0", "0">>
      [] token = "2,0,0"      -> <<"2", "0", "0">>
      [] token = "3,0,0"      -> <<"3", "0", "0">>
      [] token = "5,0,0"      -> <<"5", "0", "0">>
      [] token = "-1,0,0"     -> <<"-1", "0", "0">>
      [] token = "1,1,1"      -> <<"1", "1", "1">>
      [] token = "0,-1,0"     -> <<"0", "-1", "0">>
      [] token = "1e-200,0,0" -> <<"1e-200", "0", "0">>
      [] token = "0,0,1e200"  -> <<"0", "0", "1e200">>
      [] token = "0,0,1e308"  -> <<"0", "0", "1e308">>
      [] token = "0,0,-1e308" -> <<"0", "0", "-1e308">>
      [] token = "1,0"        -> <<"1", "0">>
      [] token = "1,x,0"      -> <<"1", "x", "0">>
      [] token = "1,2,3,4"    -> <<"1", "2", "3", "4">>
      [] OTHER                -> <<token>>

\* float(s).  In the reduced format "1e-200" is the smallest positive
\* magnitude (its square rounds to zero) and "1e200" the largest finite one
\* (its square is out of range), as they are in binary64; so is "1e308"
\* (its double is out of range).
float(s) ==
    CASE s = "0"      -> Ret(0)
      [] s = "1"      -> Ret(Scale)
      [] s = "2"      -> Ret(2 * Scale)
      [] s = "3"      -> Ret(3 * Scale)
      [] s = "4"      -> Ret(4 * Scale)
      [] s = "5"      -> Ret(5 * Scale)
      [] s = "-1"     -> Ret(-Scale)
      [] s = "1e-200" -> Ret(1)
      [] s = "1e200"  -> Ret(MaxFloat)
      [] s = "1e308"  -> Ret(MaxFloat)
      [] s = "-1e308" -> Ret(-MaxFloat)
      [] OTHER        -> Raise("ValueError",
                               "could not convert string to float: '" \o s \o "'")

\* parts[i] for the 0-based index i of the source, then float() of it.
FloatPart(parts, i) ==
    IF i + 1 > Len(parts) THEN Raise("IndexError", "list index out of range")
    ELSE float(parts[i + 1])

_parse_triple(token) ==
    LET parts == split(token)
        p0 == FloatPart(parts, 0)
        p1 == FloatPart(parts, 1)
        p2 == FloatPart(parts, 2)
    IN  IF p0.exc # "" THEN p0
        ELSE IF p1.exc # "" THEN p1
        ELSE IF p2.exc # "" THEN p2
        ELSE Ret(<<p0.val, p1.val, p2.val>>)

-----------------------------------------------------------------------------
(* Output formatting                                                       *)

\* Decimal places kept by round(v, 6).
FmtDigits == 6

RECURSIVE Pow10(_)
Pow10(n) == IF n = 0 THEN 1 ELSE 10 * Pow10(n - 1)

RECURSIVE Digits(_, _)
\* The w-digit decimal numeral of n, zero-padded on the left.
Digits(n, w) == IF w = 0 THEN "" ELSE Digits(n \div 10, w - 1) \o ToString(n % 10)

RECURSIVE Shortest(_, _)
\* The fraction digits of str(float): trailing zeros dropped, one kept.
Shortest(n, w) ==
    IF w > 1 /\ n % 10 = 0 THEN Shortest(n \div 10, w - 1) ELSE Digits(n, w)

\* _f(v) of _fmt: an integral float prints as an int, any other float as
\* str(round(v, 6)).
_f(v) ==
    IF IsNaN(v) THEN "nan"
    ELSE IF v = Inf THEN "inf"
    ELSE IF v = -Inf THEN "-inf"
    ELSE IF v % Scale = 0 THEN ToString(v \div Scale)
    ELSE LET whole == Abs(v) \div Scale
             frac  == RoundDiv((Abs(v) % Scale) * Pow10(FmtDigits), Scale)
             carry == frac \div Pow10(FmtDigits)
         IN  (IF v < 0 THEN "-" ELSE "") \o ToString(whole + carry) \o "."
             \o Shortest(frac % Pow10(FmtDigits), FmtDigits)

_fmt(triple) == _f(triple[1]) \o "," \o _f(triple[2]) \o "," \o _f(triple[3])

-----------------------------------------------------------------------------
(* Postfix converter (Algorithm 14)                                        *)

Last(stack) == stack[Len(stack)]

Pop(stack) == SubSeq(stack, 1, Len(stack) - 1)

RECURSIVE PopHigher_Strict(_, _)
\* PopHigher popping only operators of strictly higher precedence.
PopHigher_Strict(st, token) ==
    IF /\ st.operator_stack # <<>>
       /\ Last(st.operator_stack) \in OPERATORS
       /\ PRECEDENCE[Last(st.operator_stack)] > PRECEDENCE[token]
    THEN PopHigher_Strict([operator_stack |-> Pop(st.operator_stack),
                           output |-> Append(st.output, Last(st.operator_stack))],
                          token)
    ELSE st

RECURSIVE PopHigher(_, _)
\* The while loop of the operator branch: operators of higher or equal
\* precedence move from the operator stack to the output.
PopHigher(st, token) ==
    IF /\ st.operator_stack # <<>>
       /\ Last(st.operator_stack) \in OPERATORS
       /\ PRECEDENCE[Last(st.operator_stack)] >= PRECEDENCE[token]
    THEN PopHigher([operator_stack |-> Pop(st.operator_stack),
                    output |-> Append(st.output, Last(st.operator_stack))],
                   token)
    ELSE st

\* ConvertToken without the push that ends the operator branch.
ConvertToken_NoPush(st, token) ==
    IF token \notin OPERATORS
    THEN [st EXCEPT !.output = Append(@, token)]
    ELSE PopHigher(st, token)

\* ConvertToken without the while loop of the operator branch.
ConvertToken_NoPop(st, token) ==
    IF token \notin OPERATORS
    THEN [st EXCEPT !.output = Append(@, token)]
    ELSE [st EXCEPT !.operator_stack = Append(@, token)]

\* One iteration of the for loop of infix_to_postfix.
ConvertToken(st, token) ==
    IF token \notin OPERATORS
    THEN [st EXCEPT !.output = Append(@, token)]
    ELSE LET popped == PopHigher(st, token)
         IN  [popped EXCEPT !.operator_stack = Append(@, token)]

RECURSIVE ConvertLoop(_, _)
\* operator_stack and output after the first k iterations of the for loop.
ConvertLoop(tokens, k) ==
    IF k = 0 THEN [operator_stack |-> <<>>, output |-> <<>>]
    ELSE ConvertToken(ConvertLoop(tokens, k - 1), tokens[k])

\* Drain popping one operator only.
Drain_Once(st) ==
    IF st.operator_stack # <<>>
    THEN [operator_stack |-> Pop(st.operator_stack),
          output |-> Append(st.output, Last(st.operator_stack))]
    ELSE st

RECURSIVE Drain(_)
\* Step 9: the remaining operators are popped to the output.
Drain(st) ==
    IF st.operator_stack # <<>>
    THEN Drain([operator_stack |-> Pop(st.operator_stack),
                output |-> Append(st.output, Last(st.operator_stack))])
    ELSE st

\* tokens is equation_string.strip().split().
infix_to_postfix(tokens) == Drain(ConvertLoop(tokens, Len(tokens))).output

-----------------------------------------------------------------------------
(* Postfix evaluator (Algorithm 15)                                        *)

\* operand_stack.append(_parse_triple(token)), given what _parse_triple did.
PushOperand(st, parsed) ==
    IF parsed.exc # ""
    THEN [st EXCEPT !.exc = parsed.exc, !.msg = parsed.msg]
    ELSE [st EXCEPT !.operand_stack = Append(@, parsed.val)]

\* operand_stack.append(result) after the two pops, given what machine_fn
\* did.
PushResult(st, result) ==
    IF result.exc # ""
    THEN [exc |-> result.exc, msg |-> result.msg,
          operand_stack |-> Pop(Pop(st.operand_stack))]
    ELSE [st EXCEPT !.operand_stack =
                        Append(Pop(Pop(st.operand_stack)), result.val)]

\* EvaluateToken taking the first pop as the first operand.
EvaluateToken_Swapped(st, token, machine) ==
    IF st.exc # "" THEN st
    ELSE IF token \notin OPERATORS
    THEN PushOperand(st, _parse_triple(token))
    ELSE IF Len(st.operand_stack) < 2
    THEN [exc |-> "IndexError", msg |-> "pop from empty list",
          operand_stack |-> <<>>]
    ELSE LET first  == Last(st.operand_stack)
             second == Last(Pop(st.operand_stack))
         IN  PushResult(st, machine_fn(machine, first, second, token))

\* One iteration of the for loop of evaluate_postfix; an exception raised
\* by an earlier iteration has already left the loop.
EvaluateToken(st, token, machine) ==
    IF st.exc # "" THEN st
    ELSE IF token \notin OPERATORS
    THEN PushOperand(st, _parse_triple(token))
    ELSE IF Len(st.operand_stack) < 2
    THEN [exc |-> "IndexError", msg |-> "pop from empty list",
          operand_stack |-> <<>>]
    ELSE LET second == Last(st.operand_stack)
             first  == Last(Pop(st.operand_stack))
         IN  PushResult(st, machine_fn(machine, first, second, token))

RECURSIVE EvaluateLoop(_, _, _)
\* operand_stack (and the exception raised, if any) after the first k
\* iterations of the for loop.
EvaluateLoop(postfix_tokens, machine, k) ==
    IF k = 0 THEN [exc |-> "", msg |-> "", operand_stack |-> <<>>]
    ELSE EvaluateToken(EvaluateLoop(postfix_tokens, machine, k - 1),
                       postfix_tokens[k], machine)

\* return operand_stack.pop(), after the loop.
FinalPop(st) ==
    IF st.exc # "" THEN Raise(st.exc, st.msg)
    ELSE IF st.operand_stack = <<>>
    THEN Raise("IndexError", "pop from empty list")
    ELSE Ret(Last(st.operand_stack))

evaluate_postfix(postfix_tokens, machine) ==
    FinalPop(EvaluateLoop(postfix_tokens, machine, Len(postfix_tokens)))

-----------------------------------------------------------------------------
(* Calculator drivers                                                      *)

\* One entry of a results list.  The string recorded is mark \o text: a
\* formatted triple has an empty mark, "ERR" an empty text, and
\* "ERR:<message>" the mark "ERR:".
Entry(mark, text) == [mark |-> mark, text |-> text]

\* The try body shared by both drivers.
Evaluate(eq, machine) == evaluate_postfix(infix_to_postfix(eq), machine)

\* StdRecord inserting the result at the front of the list.
StdRecord_Prepend(data, triple) ==
    IF triple.exc = ""
    THEN [data EXCEPT !.results = <<Entry("", _fmt(triple.val))>> \o @,
                      !.equations_completed = @ + 1]
    ELSE IF triple.exc = "ZeroDivisionError"
    THEN [data EXCEPT !.results = <<Entry("ERR", "")>> \o @,
                      !.dbz_count = @ + 1]
    ELSE [data EXCEPT !.results = <<Entry("ERR:", triple.msg)>> \o @]

\* StdRecord without the except clause for ZeroDivisionError.
StdRecord_NoZeroClause(data, triple) ==
    IF triple.exc = ""
    THEN [data EXCEPT !.results = Append(@, Entry("", _fmt(triple.val))),
                      !.equations_completed = @ + 1]
    ELSE [data EXCEPT !.results = Append(@, Entry("ERR:", triple.msg))]

\* StdRecord counting an equation as completed in the last except clause
\* too.
StdRecord_CountsErrors(data, triple) ==
    IF triple.exc = ""
    THEN [data EXCEPT !.results = Append(@, Entry("", _fmt(triple.val))),
                      !.equations_completed = @ + 1]
    ELSE IF triple.exc = "ZeroDivisionError"
    THEN [data EXCEPT !.results = Append(@, Entry("ERR", "")),
                      !.dbz_count = @ + 1]
    ELSE [data EXCEPT !.results = Append(@, Entry("ERR:", triple.msg)),
                      !.equations_completed = @ + 1]

\* The try statement of run_std_calculator, given the outcome of the two
\* calls of its body: the rest of the body, or one of the except clauses.
StdRecord(data, triple) ==
    IF triple.exc = ""
    THEN [data EXCEPT !.results = Append(@, Entry("", _fmt(triple.val))),
                      !.equations_completed = @ + 1]
    ELSE IF triple.exc = "ZeroDivisionError"
    THEN [data EXCEPT !.results = Append(@, Entry("ERR", "")),
                      !.dbz_count = @ + 1]
    ELSE [data EXCEPT !.results = Append(@, Entry("ERR:", triple.msg))]

\* One iteration of the for loop of run_std_calculator.
StdIteration(data, eq) == StdRecord(data, Evaluate(eq, "std"))

\* The try statement of run_dbz_calculator, given the outcome of its body.
DbzRecord(data, triple) ==
    IF triple.exc = ""
    THEN [data EXCEPT !.results = Append(@, Entry("", _fmt(triple.val))),
                      !.equations_completed = @ + 1]
    ELSE [data EXCEPT !.results = Append(@, Entry("ERR:", triple.msg))]

\* One iteration of the for loop of run_dbz_calculator.
DbzIteration(data, eq) == DbzRecord(data, Evaluate(eq, "dbz"))

-----------------------------------------------------------------------------
(* Inputs                                                                  *)

CoreOperands == {"0,0,0", "2,0,0"}

CoreTokens == CoreOperands \cup OPERATORS

AllTokens ==
    CoreTokens \cup {"1,0,0", "3,0,0", "5,0,0", "-1,0,0", "1,1,1", "0,-1,0",
                     "1e-200,0,0", "0,0,1e200",
                     "1,0", "1,x,0", "1,2,3,4", "x", "^"}

SeqsUpTo(S, n) == UNION {[1..k -> S] : k \in 0..n}

\* The converter example of the documentation, a longer equation, and two
\* round trips of a subtraction and an addition.
Examples ==
    { <<"1,0,0", "+", "2,0,0", "*", "3,0,0">>,
      <<"1,0,0", "+", "2,0,0", "*", "3,0,0", "/", "5,0,0", "-", "1,1,1">>,
      <<"5,0,0", "-", "1,1,1", "+", "1,1,1">>,
      <<"0,0,1e308", "-", "0,0,-1e308", "+", "0,0,-1e308">> }

\* operand (operator operand)^n over the core alphabet.
Chains(n) ==
    {[k \in 1..(2 * n + 1) |->
         IF k % 2 = 1 THEN operands[(k + 1) \div 2] ELSE operators[k \div 2]] :
        operands \in [1..(n + 1) -> CoreOperands],
        operators \in [1..n -> OPERATORS]}

\* operand operator operand over the full alphabet (malformed operands and
\* unknown symbols included).
Binary ==
    {<<a, op, b>> : a \in AllTokens \ OPERATORS, op \in OPERATORS,
                    b \in AllTokens \ OPERATORS}

\* The equations a batch is made of, as token lists.
Equations ==
    SeqsUpTo(CoreTokens, MaxTokens) \cup SeqsUpTo(AllTokens, MaxShort)
        \cup UNION {Chains(n) : n \in 0..MaxOps} \cup Binary \cup Examples

\* Equations of every outcome, for the batches of more than one equation.
BatchEquations ==
    { <<"1,0,0", "+", "2,0,0">>,
      <<"1,0,0", "/", "0,0,0">>,
      <<"1,0,0", "2,0,0">>,
      <<"1,0,0", "+">>,
      <<"x", "-", "1,0,0">>,
      <<>> }

Batches ==
    {<<eq>> : eq \in Equations} \cup SeqsUpTo(BatchEquations, MaxBatch)

-----------------------------------------------------------------------------
(* run_experiment: the STD calculator, then the DBZ calculator, on one     *)
(* list of equations                                                       *)

\* equations: the batch; pc: the calculator running; std, dbz: the locals
\* (results, equations_completed, dbz_count) of the two driver loops;
\* std_data, dbz_data: the dict each driver returned (<<>> before it returns).
VARIABLES equations, pc, std, dbz, std_data, dbz_data

vars == <<equations, pc, std, dbz, std_data, dbz_data>>

Init ==
    /\ equations \in Batches
    /\ pc = "std"
    /\ std = [results |-> <<>>, equations_completed |-> 0, dbz_count |-> 0]
    /\ dbz = [results |-> <<>>, equations_completed |-> 0]
    /\ std_data = <<>>
    /\ dbz_data = <<>>

\* run_std_calculator: the loop body on the next equation.
StdStep ==
    /\ pc = "std"
    /\ Len(std.results) < Len(equations)
    /\ std' = StdIteration(std, equations[Len(std.results) + 1])
    /\ UNCHANGED <<equations, pc, dbz, std_data, dbz_data>>

\* run_std_calculator: the loop is over, the dict is returned.
StdReturn ==
    /\ pc = "std"
    /\ Len(std.results) = Len(equations)
    /\ std_data' = <<std>>
    /\ pc' = "dbz"
    /\ UNCHANGED <<equations, std, dbz, dbz_data>>

\* run_dbz_calculator: the loop body on the next equation.
DbzStep ==
    /\ pc = "dbz"
    /\ Len(dbz.results) < Len(equations)
    /\ dbz' = DbzIteration(dbz, equations[Len(dbz.results) + 1])
    /\ UNCHANGED <<equations, pc, std, std_data, dbz_data>>

\* run_dbz_calculator: the loop is over, the dict is returned.
DbzReturn ==
    /\ pc = "dbz"
    /\ Len(dbz.results) = Len(equations)
    /\ dbz_data' = <<dbz>>
    /\ pc' = "done"
    /\ UNCHANGED <<equations, std, dbz, std_data>>

Next == StdStep \/ StdReturn \/ DbzStep \/ DbzReturn

Spec == Init /\ [][Next]_vars

-----------------------------------------------------------------------------
(* Vocabulary of the properties                                            *)

\* An operand token of the grammar: exactly three numeric fields.
ValidOperand(token) ==
    /\ token \notin OPERATORS
    /\ Len(split(token)) = 3
    /\ \A j \in 1..3 : float(split(token)[j]).exc = ""

\* Operand and operator tokens alternate, with an operand at both ends.
Alternating(eq) ==
    /\ Len(eq) % 2 = 1
    /\ \A k \in 1..Len(eq) : (k % 2 = 0) <=> (eq[k] \in OPERATORS)

WellFormed(eq) ==
    /\ Alternating(eq)
    /\ \A k \in 1..Len(eq) : k % 2 = 1 => ValidOperand(eq[k])

Machines == {"std", "dbz"}

\* The equations a driver has processed so far, by index.
Processed(machine) ==
    IF machine = "std" THEN 1..Len(std.results) ELSE 1..Len(dbz.results)

\* The entry a driver records for an equation processed alone.
Alone(machine, eq) ==
    IF machine = "std"
    THEN StdIteration([results |-> <<>>, equations_completed |-> 0,
                       dbz_count |-> 0], eq).results[1]
    ELSE DbzIteration([results |-> <<>>, equations_completed |-> 0],
                      eq).results[1]

RECURSIVE EvaluateTrace(_, _, _)
\* The states of the for loop of evaluate_postfix before its first
\* iteration and after each of its first k: element j + 1 is
\* EvaluateLoop(postfix_tokens, machine, j).
EvaluateTrace(postfix_tokens, machine, k) ==
    IF k = 0 THEN <<EvaluateLoop(postfix_tokens, machine, 0)>>
    ELSE LET trace == EvaluateTrace(postfix_tokens, machine, k - 1)
         IN  Append(trace, EvaluateToken(trace[k], postfix_tokens[k], machine))

\* The iterations of the loop, traced by trace, that call the machine.
CallSteps(postfix, trace) ==
    {k \in 1..Len(postfix) :
        /\ postfix[k] \in OPERATORS
        /\ trace[k].exc = ""
        /\ Len(trace[k].operand_stack) >= 2}

\* The calls (first, second, op) made to the machine while eq is evaluated.
CallsOf(eq, machine) ==
    LET postfix == infix_to_postfix(eq)
        trace   == EvaluateTrace(postfix, machine, Len(postfix))
    IN  {[first  |-> trace[k].operand_stack[Len(trace[k].operand_stack) - 1],
          second |-> Last(trace[k].operand_stack),
          op     |-> postfix[k]] : k \in CallSteps(postfix, trace)}

\* Every call a driver made to its machine so far.
Calls(machine) ==
    UNION {CallsOf(equations[i], machine) : i \in Processed(machine)}

Zero == <<0, 0, 0>>

-----------------------------------------------------------------------------
(* C1 *)

\* C1: each driver's results list holds, in input order, one entry per
\* equation processed, entry i being the entry the driver records for
\* equation i processed alone; the list returned has exactly N entries.
C1_BatchOrderPreserved ==
    /\ \A m \in Machines : \A i \in Processed(m) :
          /\ i <= Len(equations)
          /\ (IF m = "std" THEN std.results[i] ELSE dbz.results[i])
                = Alone(m, equations[i])
    /\ std_data # <<>> => /\ Len(std_data[1].results) = Len(equations)
                          /\ std_data[1].results = std.results
    /\ dbz_data # <<>> => /\ Len(dbz_data[1].results) = Len(equations)
                          /\ dbz_data[1].results = dbz.results

\* A batch of two equations, the first failing in STD and the second not,
\* fully processed by both drivers.
C1_Witness ==
    /\ pc = "done"
    /\ Len(equations) = 2
    /\ std_data[1].results[1].mark = "ERR"
    /\ std_data[1].results[2].mark = ""
    /\ dbz_data[1].results[1].mark = ""
    /\ equations[1] # equations[2]

-----------------------------------------------------------------------------
(* C2 *)

\* The STD evaluation of eq reaches a division whose divisor is (0,0,0).
ReachesZeroDivision(eq) ==
    \E call \in CallsOf(eq, "std") : call.op = "/" /\ call.second = Zero

\* C2: in run_std_calculator an equation whose evaluation reaches a division
\* by (0,0,0) is recorded as the single entry "ERR", and the batch goes on:
\* every later equation gets its own entry and the list returned is complete.
C2_StdZeroDivisionRecovered ==
    /\ \A i \in Processed("std") :
          ReachesZeroDivision(equations[i]) =>
             /\ std.results[i] = Entry("ERR", "")
             /\ \A j \in Processed("std") :
                   j > i => std.results[j] = Alone("std", equations[j])
    /\ std_data # <<>> => Len(std_data[1].results) = Len(equations)

\* STD returned from a batch whose first equation divided by (0,0,0) after
\* an addition or multiplication-free prefix, and whose second completed.
C2_Witness ==
    /\ std_data # <<>>
    /\ Len(equations) = 2
    /\ ReachesZeroDivision(equations[1])
    /\ std_data[1].results[1] = Entry("ERR", "")
    /\ std_data[1].results[2].mark = ""
    /\ std_data[1].dbz_count = 1

-----------------------------------------------------------------------------
(* C3 *)

\* C3: for every well-formed equation run_dbz_calculator records a
\* formatted triple, never an entry beginning with "ERR".
C3_DbzNeverFails ==
    \A i \in Processed("dbz") :
        WellFormed(equations[i]) => dbz.results[i].mark = ""

-----------------------------------------------------------------------------
(* C4 *)

\* The inverse (R*a, -R*b, -R*c) of a divisor, R = 1 / (a*a + b*b + c*c).
InverseOf(abc) ==
    LET R == FRecip(FAdd(FAdd(FMul(abc[1], abc[1]), FMul(abc[2], abc[2])),
                         FMul(abc[3], abc[3])))
    IN  <<FMul(R, abc[1]), FMul(FNeg(R), abc[2]), FMul(FNeg(R), abc[3])>>

\* C4: arithmetic_machine_std(p, q, '/') raises the divide-by-zero error
\* when q is (0,0,0) and only then; for any other q it returns
\* multiply(p, inverse of q).
C4_StdDivideByZeroOnlyAtZero ==
    \A call \in Calls("std") :
        call.op = "/" =>
            LET r == arithmetic_machine_std(call.first, call.second, "/")
            IN  IF call.second = Zero
                THEN r.exc = "ZeroDivisionError"
                ELSE /\ r.exc # "ZeroDivisionError"
                     /\ r = multiply(call.first, InverseOf(call.second))

-----------------------------------------------------------------------------
(* C5 *)

\* C5: arithmetic_machine_dbz(p, (0,0,0), '/') never fails and returns
\* multiply(p, (0, -0, -1)), the product with the inverse of (0,0,1).
C5_DbzDivisionByZeroTotal ==
    \A call \in Calls("dbz") :
        (call.op = "/" /\ call.second = Zero) =>
            LET r == arithmetic_machine_dbz(call.first, call.second, "/")
            IN  /\ r.exc = ""
                /\ r = multiply(call.first, <<0, 0, -Scale>>)

-----------------------------------------------------------------------------
(* C6 *)

\* The entry a driver recorded for equation i.
Recorded(machine, i) ==
    IF machine = "std" THEN std.results[i] ELSE dbz.results[i]

\* C6: the two machines agree on every call that is not a division by
\* (0,0,0), whatever the operator (an unknown one included), and for every
\* equation whose STD entry is not "ERR" the DBZ driver records the same entry.
C6_PoliciesDifferOnlyAtZeroDivision ==
    /\ \A m \in Machines : \A call \in Calls(m) :
          \A op \in OPERATORS \cup {"^"} :
             (op # "/" \/ call.second # Zero) =>
                arithmetic_machine_std(call.first, call.second, op)
                   = arithmetic_machine_dbz(call.first, call.second, op)
    /\ \A i \in Processed("dbz") :
          std.results[i] # Entry("ERR", "") => dbz.results[i] = std.results[i]

\* Both drivers processed an equation that divides by a nonzero triple with
\* a zero component and recorded the same formatted triple for it.
C6_Witness ==
    /\ pc = "done"
    /\ \E call \in Calls("dbz") :
          call.op = "/" /\ call.second # Zero /\ call.second[2] = 0
    /\ std.results[1].mark = ""
    /\ dbz.results[1] = std.results[1]

-----------------------------------------------------------------------------
(* C7 *)

\* The operand of a well-formed equation at token position k, parsed.
Operand(eq, k) == _parse_triple(eq[k]).val

RECURSIVE RefLoop(_, _, _)
\* Reference infix semantics, after the first j operator/operand pairs:
\* term is the value of the current run of '*' and '/' (applied left to
\* right), sum the value of the terms before it (added and subtracted left
\* to right), sumop the '+' or '-' pending between them.
RefLoop(eq, machine, j) ==
    IF j = 0
    THEN [exc |-> "", msg |-> "", sum |-> Zero, sumop |-> "",
          term |-> Operand(eq, 1)]
    ELSE LET prev == RefLoop(eq, machine, j - 1)
             op   == eq[2 * j]
             v    == Operand(eq, 2 * j + 1)
         IN  IF prev.exc # "" THEN prev
             ELSE IF op \in {"*", "/"}
             THEN LET r == machine_fn(machine, prev.term, v, op)
                  IN  IF r.exc # ""
                      THEN [prev EXCEPT !.exc = r.exc, !.msg = r.msg]
                      ELSE [prev EXCEPT !.term = r.val]
             ELSE IF prev.sumop = ""
             THEN [prev EXCEPT !.sum = prev.term, !.sumop = op, !.term = v]
             ELSE LET r == machine_fn(machine, prev.sum, prev.term, prev.sumop)
                  IN  IF r.exc # ""
                      THEN [prev EXCEPT !.exc = r.exc, !.msg = r.msg]
                      ELSE [prev EXCEPT !.sum = r.val, !.sumop = op, !.term = v]

\* The value of a well-formed equation under the reference semantics.
RefEval(eq, machine) ==
    LET st == RefLoop(eq, machine, (Len(eq) - 1) \div 2)
    IN  IF st.exc # "" THEN Raise(st.exc, st.msg)
        ELSE IF st.sumop = "" THEN Ret(st.term)
        ELSE machine_fn(machine, st.sum, st.term, st.sumop)

\* C7: for every well-formed equation, evaluating the converter's output
\* gives the result of the reference infix semantics ('*' and '/' bind
\* tighter than '+' and '-', equal precedence applies left to right), and
\* "1,0,0 + 2,0,0 * 3,0,0" converts to 1,0,0 2,0,0 3,0,0 * +.
C7_ConverterMatchesInfixSemantics ==
    \A m \in Machines : \A i \in Processed(m) :
        WellFormed(equations[i]) =>
            /\ Evaluate(equations[i], m) = RefEval(equations[i], m)
            /\ Recorded(m, i).mark = "" =>
                  Recorded(m, i).text = _fmt(RefEval(equations[i], m).val)
            /\ equations[i] = <<"1,0,0", "+", "2,0,0", "*", "3,0,0">> =>
                  infix_to_postfix(equations[i])
                     = <<"1,0,0", "2,0,0", "3,0,0", "*", "+">>

\* Both drivers completed "1,0,0 + 2,0,0 * 3,0,0".
C7_Witness ==
    /\ pc = "done"
    /\ equations = <<<<"1,0,0", "+", "2,0,0", "*", "3,0,0">>>>
    /\ std.results[1].mark = ""
    /\ dbz.results[1].mark = ""

-----------------------------------------------------------------------------
(* C8 *)

\* C8: at every operator token evaluate_postfix applies the machine to
\* (next-to-top, top) of the operand stack and pushes the result, so the
\* postfix a b op evaluates to machine_fn(a, b, op); "5,0,0 2,0,0 -" gives
\* (3,0,0).
C8_OperandOrder ==
    \A m \in Machines : \A i \in Processed(m) :
        LET eq == equations[i]
            postfix == infix_to_postfix(eq)
            trace   == EvaluateTrace(postfix, m, Len(postfix))
        IN  /\ \A k \in CallSteps(postfix, trace) :
                  LET before == trace[k].operand_stack
                      after  == trace[k + 1]
                      n      == Len(before)
                      r      == machine_fn(m, before[n - 1], before[n], postfix[k])
                  IN  IF r.exc # "" THEN after.exc = r.exc
                      ELSE after.operand_stack
                              = Append(SubSeq(before, 1, n - 2), r.val)
            /\ (WellFormed(eq) /\ Len(eq) = 3) =>
                  /\ postfix = <<eq[1], eq[3], eq[2]>>
                  /\ Evaluate(eq, m)
                        = machine_fn(m, Operand(eq, 1), Operand(eq, 3), eq[2])
            /\ eq = <<"5,0,0", "-", "2,0,0">> =>
                  /\ Evaluate(eq, m) = Ret(<<3 * Scale, 0, 0>>)
                  /\ Recorded(m, i) = Entry("", "3,0,0")

\* Both drivers completed "5,0,0 - 2,0,0", whose postfix is 5,0,0 2,0,0 -.
C8_Witness ==
    /\ pc = "done"
    /\ equations = <<<<"5,0,0", "-", "2,0,0">>>>
    /\ infix_to_postfix(equations[1]) = <<"5,0,0", "2,0,0", "-">>
    /\ std.results[1] = Entry("", "3,0,0")
    /\ dbz.results[1] = Entry("", "3,0,0")

-----------------------------------------------------------------------------
(* C9 *)

\* C9: on the converter's output for a well-formed equation no pop is
\* attempted on an empty operand stack, and when no machine call fails
\* exactly one triple is left after the last token, which is the value
\* returned.
C9_OneTripleRemains ==
    \A m \in Machines : \A i \in Processed(m) :
        WellFormed(equations[i]) =>
            LET postfix == infix_to_postfix(equations[i])
                trace   == EvaluateTrace(postfix, m, Len(postfix))
                final   == trace[Len(postfix) + 1]
            IN  /\ \A k \in 1..Len(postfix) :
                      (postfix[k] \in OPERATORS /\ trace[k].exc = "") =>
                          Len(trace[k].operand_stack) >= 2
                /\ Evaluate(equations[i], m).exc # "IndexError"
                /\ final.exc = "" =>
                      /\ Len(final.operand_stack) = 1
                      /\ Evaluate(equations[i], m) = Ret(final.operand_stack[1])

\* Both drivers completed a well-formed equation of five tokens whose
\* operators were all on the operator stack when the tokens ran out.
C9_Witness ==
    /\ pc = "done"
    /\ Len(equations) = 1
    /\ WellFormed(equations[1])
    /\ Len(equations[1]) = 5
    /\ Len(ConvertLoop(equations[1], 5).operator_stack) = 2
    /\ std.results[1].mark = ""
    /\ dbz.results[1].mark = ""

-----------------------------------------------------------------------------
(* C10 *)

\* C10: an equation whose operand and operator tokens do not alternate
\* with an operand at both ends is recorded as a failure by both drivers,
\* never as a formatted triple.
C10_MalformedStructureFails ==
    \A m \in Machines : \A i \in Processed(m) :
        ~Alternating(equations[i]) => Recorded(m, i).mark # ""

-----------------------------------------------------------------------------
(* C11 *)

\* An operand token that is not three numeric fields, or an unknown symbol.
Malformed(token) == token \notin OPERATORS /\ ~ValidOperand(token)

\* C11: an equation holding an operand token that is not exactly three
\* numeric fields (fewer, more, or a non-numeric one) or an unknown symbol
\* is recorded by both drivers as an "ERR:<message>" entry, never as "ERR"
\* and never as a formatted triple.
C11_MalformedOperandFails ==
    \A m \in Machines : \A i \in Processed(m) :
        (\E k \in 1..Len(equations[i]) : Malformed(equations[i][k])) =>
            Recorded(m, i).mark = "ERR:"

-----------------------------------------------------------------------------
(* C12 *)

\* C12: the equations_completed count of the dict run_dbz_calculator
\* returns equals len(equations), whatever the batch.
C12_DbzCompletesAll ==
    dbz_data # <<>> => dbz_data[1].equations_completed = Len(equations)

-----------------------------------------------------------------------------
(* C13 *)

\* Steps 2 and 3 of multiply: A, B, C, D of a pair of triples.
Products(xyz, abc) ==
    [A |-> FSub(FSub(FMul(xyz[1], abc[1]), FMul(xyz[2], abc[2])),
                FMul(xyz[3], abc[3])),
     B |-> FAdd(FMul(xyz[1], abc[2]), FMul(xyz[2], abc[1])),
     C |-> FAdd(FMul(xyz[1], abc[3]), FMul(xyz[3], abc[1])),
     D |-> FAdd(FMul(xyz[2], abc[3]), FMul(xyz[3], abc[2]))]

\* The pairs of triples multiply was applied to by a driver so far: the
\* operands of '*', and for '/' the dividend and the inverse the machine
\* built (of the divisor, or of the unit DBZ puts in its place).
MultiplyArgs(machine) ==
    {<<call.first, call.second>> :
        call \in {c \in Calls(machine) : c.op = "*"}}
    \cup {<<call.first, InverseOf(call.second)>> :
            call \in {c \in Calls(machine) :
                         /\ c.op = "/"
                         /\ c.second # Zero
                         /\ arithmetic_machine_std(c.first, c.second, "/").exc
                               # "ZeroDivisionError"}}
    \cup {<<call.first, <<0, 0, -Scale>> >> :
            call \in {c \in Calls(machine) :
                         machine = "dbz" /\ c.op = "/" /\ c.second = Zero}}

\* The angle with direction vector (dx, dy) is the one the degenerate-angle
\* rule gives for the finite pair (A, B): pi when both are zero, pi/2 when
\* only A is, atan2(B, A) otherwise.
FollowsAngleRule(F, A, B) ==
    /\ ~F.nan
    /\ IF A = 0 /\ B = 0 THEN F.dx < 0 /\ F.dy = 0
       ELSE IF A = 0 THEN F.dx = 0 /\ F.dy > 0
       ELSE /\ F.dx * B = F.dy * A
            /\ Sign(F.dx) = Sign(A)
            /\ Sign(F.dy) = Sign(B)

\* C13: multiply takes F from (A, B) and G from (C, D) by the
\* degenerate-angle rule and returns (mag1 * cos(F - G), mag1 * sin(F - G),
\* mag2); for (1,0,0) and (2,0,0) it gets A = 2, B = C = D = 0, F = 0,
\* G = pi and returns (-2, 0, 0), not (2, 0, 0).
C13_MultiplyDegenerateAngles ==
    /\ \A m \in Machines : \A args \in MultiplyArgs(m) :
          LET P == Products(args[1], args[2])
              F == Angle(P.A, P.B)
              G == Angle(P.C, P.D)
              r == multiply(args[1], args[2])
          IN  /\ (IsFinite(P.A) /\ IsFinite(P.B)) => FollowsAngleRule(F, P.A, P.B)
              /\ (IsFinite(P.C) /\ IsFinite(P.D)) => FollowsAngleRule(G, P.C, P.D)
              /\ r = new_XYZ(P.A, P.B, P.C, P.D, F, G)
              /\ r.exc = "" =>
                    /\ r.val[3] = FSqrt(FAdd(FSq(P.C), FSq(P.D)))
                    /\ (P.A = 0 /\ P.B # 0 /\ P.C = 0 /\ P.D = 0) =>
                          r.val = <<0, FNeg(FSqrt(FSq(P.B))), 0>>
    /\ \A m \in Machines : \A i \in Processed(m) :
          equations[i] = <<"1,0,0", "*", "2,0,0">> =>
             /\ Products(<<Scale, 0, 0>>, <<2 * Scale, 0, 0>>)
                   = [A |-> 2 * Scale, B |-> 0, C |-> 0, D |-> 0]
             /\ Evaluate(equations[i], m) = Ret(<<-2 * Scale, 0, 0>>)
             /\ Recorded(m, i) # Entry("", "2,0,0")

\* Both drivers completed "1,0,0 * 2,0,0".
C13_Witness ==
    /\ pc = "done"
    /\ equations = <<<<"1,0,0", "*", "2,0,0">>>>
    /\ <<<<Scale, 0, 0>>, <<2 * Scale, 0, 0>>>> \in MultiplyArgs("std")
    /\ std.results[1].mark = ""
    /\ dbz.results[1] = std.results[1]

-----------------------------------------------------------------------------
(* C14 *)

\* The pairs (p, q) a driver subtracted so far.
Subtractions(machine) ==
    {<<call.first, call.second>> :
        call \in {c \in Calls(machine) : c.op = "-"}}

\* Every component of the triple is a finite number.
FiniteTriple(t) == \A j \in 1..3 : IsFinite(t[j])

\* add and subtract work component by component, and the machine returns
\* their value without raising.
ComponentWise(machine, p, q) ==
    /\ \A j \in 1..3 : /\ subtract(p, q)[j] = FSub(p[j], q[j])
                       /\ add(p, q)[j] = FAdd(p[j], q[j])
    /\ machine_fn(machine, p, q, "-") = Ret(subtract(p, q))
    /\ machine_fn(machine, p, q, "+") = Ret(add(p, q))

-----------------------------------------------------------------------------
(* C15 *)

\* The tokens of a sequence that are operators of precedence tier, in order
\* (tier 0: the tokens that are not operators).
Tier(tokens, tier) ==
    SelectSeq(tokens,
              LAMBDA t : IF t \in OPERATORS THEN PRECEDENCE[t] = tier
                         ELSE tier = 0)

\* C15: for every token sequence the output of infix_to_postfix has the
\* length of the input and is a permutation of it in which the operands
\* keep their order and so do the operators of each precedence tier; no
\* operator is left on the operator stack.
C15_ConverterPermutes ==
    \A m \in Machines : \A i \in Processed(m) :
        LET tokens == equations[i]
            final  == Drain(ConvertLoop(tokens, Len(tokens)))
            output == infix_to_postfix(tokens)
        IN  /\ Len(output) = Len(tokens)
            /\ \A tier \in 0..2 : Tier(output, tier) = Tier(tokens, tier)
            /\ \A t \in AllTokens :
                  Cardinality({k \in 1..Len(output) : output[k] = t})
                     = Cardinality({k \in 1..Len(tokens) : tokens[k] = t})
            /\ final.operator_stack = <<>>
            /\ final.output = output

\* A driver processed "a - b * c": the operators leave the converter in the
\* order * -, each tier in its own order.
C15_Witness ==
    /\ Len(std.results) = 1
    /\ Len(equations[1]) = 5
    /\ WellFormed(equations[1])
    /\ equations[1][2] = "-"
    /\ equations[1][4] = "*"
    /\ infix_to_postfix(equations[1])
          = <<equations[1][1], equations[1][3], equations[1][5], "*", "-">>

-----------------------------------------------------------------------------
(* C16 *)

\* The number of entries of a results list with the given mark.
CountMark(results, mark) ==
    Cardinality({k \in 1..Len(results) : results[k].mark = mark})

\* The counters of run_std_calculator agree with its results list:
\* equations_completed counts the formatted triples, dbz_count the "ERR"
\* entries, and with the "ERR:<message>" entries they add up to the number
\* of equations processed.
CountsAgree(data) ==
    /\ data.equations_completed = CountMark(data.results, "")
    /\ data.dbz_count = CountMark(data.results, "ERR")
    /\ \A k \in 1..Len(data.results) :
          data.results[k].mark = "ERR" => data.results[k].text = ""
    /\ data.equations_completed + data.dbz_count
          + CountMark(data.results, "ERR:") = Len(data.results)

\* Every equation of the batch is well-formed.
WellFormedBatch == \A i \in 1..Len(equations) : WellFormed(equations[i])

\* A call of the STD evaluation of eq raises OverflowError.
Overflows(eq) ==
    \E call \in CallsOf(eq, "std") :
        arithmetic_machine_std(call.first, call.second, call.op).exc
           = "OverflowError"

-----------------------------------------------------------------------------
(* C17 *)

\* The precedences of the operators of a stack increase strictly from
\* bottom to top.
StrictlyIncreasing(stack) ==
    \A j \in 1..Len(stack) :
        /\ stack[j] \in OPERATORS
        /\ j > 1 => PRECEDENCE[stack[j - 1]] < PRECEDENCE[stack[j]]

\* C17: after each token infix_to_postfix has processed, of any token
\* sequence, the precedences on the operator stack increase strictly from
\* bottom to top and the stack holds at most two operators; and while
\* evaluate_postfix runs on the converter's output for a well-formed
\* equation the operand stack holds at most three triples.
C17_StackDepths ==
    \A m \in Machines : \A i \in Processed(m) :
        LET eq      == equations[i]
            postfix == infix_to_postfix(eq)
            trace   == EvaluateTrace(postfix, m, Len(postfix))
        IN  /\ \A k \in 0..Len(eq) :
                  /\ StrictlyIncreasing(ConvertLoop(eq, k).operator_stack)
                  /\ Len(ConvertLoop(eq, k).operator_stack) <= 2
            /\ WellFormed(eq) =>
                  \A k \in 1..Len(trace) : Len(trace[k].operand_stack) <= 3

\* Both drivers completed a well-formed equation of more than five tokens
\* during which the operator stack held two operators and the operand stack
\* three triples.
C17_Witness ==
    /\ pc = "done"
    /\ Len(equations) = 1
    /\ WellFormed(equations[1])
    /\ Len(equations[1]) > 5
    /\ \E k \in 1..Len(equations[1]) :
          Len(ConvertLoop(equations[1], k).operator_stack) = 2
    /\ \E k \in 1..Len(equations[1]) :
          Len(EvaluateLoop(infix_to_postfix(equations[1]), "std", k).operand_stack) = 3
    /\ std.results[1].mark = ""
    /\ dbz.results[1].mark = ""

====
